---- MODULE Spec2Model ----
(***************************************************************************)
(* SycophancyEvaluator (run_evaluation.py): the evaluation run loop, the   *)
(* service call boundary and the two result writers.                       *)
(*                                                                         *)
(* Text is a sequence of one-character strings, so that the error marker,  *)
(* the JSON string escaping and the CSV quoting are computed character by  *)
(* character.  Time is a number of clock ticks.                            *)
(***************************************************************************)
EXTENDS Integers, Sequences, FiniteSets, TLC

\* ------------------------------------------------------------------ bounds
MaxPairs == 2          \* longest prompt pair list in the input document
MaxClock == 2          \* the clock stops advancing at this many ticks
TicksPerSecond == 2    \* clock resolution: ticks in one second

\* --------------------------------------------------------- program constants
max_tokens == 1024

model == <<"m", "1">>

Neutral == <<"n", "e", "u", "t", "r", "a", "l">>

Invested == <<"i", "n", "v", "e", "s", "t", "e", "d">>

ErrorPrefix == <<"E", "R", "R", "O", "R", ":", " ">>

\* str(IndexError) raised by message.content[0] on an empty content list
IndexErrorText ==
  <<"l", "i", "s", "t", " ", "i", "n", "d", "e", "x", " ",
    "o", "u", "t", " ", "o", "f", " ", "r", "a", "n", "g", "e">>

\* keys the run loop reads from a pair
PairFields ==
  {"id", "category", "base_question", "neutral_framing", "invested_framing"}

\* fieldnames of the CSV writer, in column order
fieldnames ==
  <<"prompt_id", "category", "base_question", "framing_type",
    "full_prompt", "response", "timestamp", "model">>

\* the characters of each fieldname, as written in the header row
FieldnameText ==
  [prompt_id     |-> <<"p", "r", "o", "m", "p", "t", "_", "i", "d">>,
   category      |-> <<"c", "a", "t", "e", "g", "o", "r", "y">>,
   base_question |-> <<"b", "a", "s", "e", "_", "q", "u", "e", "s", "t", "i", "o", "n">>,
   framing_type  |-> <<"f", "r", "a", "m", "i", "n", "g", "_", "t", "y", "p", "e">>,
   full_prompt   |-> <<"f", "u", "l", "l", "_", "p", "r", "o", "m", "p", "t">>,
   response      |-> <<"r", "e", "s", "p", "o", "n", "s", "e">>,
   timestamp     |-> <<"t", "i", "m", "e", "s", "t", "a", "m", "p">>,
   model         |-> <<"m", "o", "d", "e", "l">>]

\* ------------------------------------------------------------- text helpers
StartsWith(s, p) == Len(s) >= Len(p) /\ SubSeq(s, 1, Len(p)) = p

IsPrefix(s, t) == Len(s) <= Len(t) /\ SubSeq(t, 1, Len(s)) = s

RECURSIVE DecStr(_)
\* decimal digits of a natural number
DecStr(n) ==
  LET d == <<"0", "1", "2", "3", "4", "5", "6", "7", "8", "9">>[(n % 10) + 1]
  IN IF n < 10 THEN <<d>> ELSE Append(DecStr(n \div 10), d)

\* ------------------------------------------------------------------- clock
\* datetime.now().strftime("%Y%m%d_%H%M%S"): whole seconds, the fraction dropped
Strftime(t) == DecStr(t \div TicksPerSecond)

\* datetime.now().isoformat(): the fraction is printed unless it is zero
IsoFormat(t) ==
  IF t % TicksPerSecond = 0
  THEN DecStr(t \div TicksPerSecond)
  ELSE DecStr(t \div TicksPerSecond) \o <<".">> \o DecStr(t % TicksPerSecond)

\* ------------------------------------------------------------ input domain
PairA ==
  [id               |-> <<"p", "1">>,
   category         |-> <<"c">>,
   base_question    |-> <<"q", ",", "?">>,
   neutral_framing  |-> <<"n", "\"">>,
   invested_framing |-> <<"i", "\n", "!">>]

PairB ==
  [id               |-> <<"p", "2">>,
   category         |-> <<"a", "\\", "b">>,
   base_question    |-> <<"\r", "\n">>,
   neutral_framing  |-> <<"x">>,
   invested_framing |-> <<"\"", "\"", ",">>]

PairC ==
  [id               |-> <<"p", "3">>,
   category         |-> <<"c">>,
   base_question    |-> <<" ", "z">>,
   neutral_framing  |-> <<"w">>,
   invested_framing |-> <<"y", "\t">>]

PairPool == <<PairA, PairB, PairC>>

\* a pair with one of its keys absent
DropField(pair, f) == [k \in (DOMAIN pair) \ {f} |-> pair[k]]

\* strictly increasing index lists into the pool: the ids of a list are unique
IndexLists ==
  {<<>>} \cup {<<a>> : a \in 1..3}
         \cup {<<a, b>> : a \in 1..2, b \in 2..3} \cup {<<1, 2, 3>>}

ValidPairLists ==
  {[k \in 1..Len(ix) |-> PairPool[ix[k]]] :
     ix \in {jx \in IndexLists : Len(jx) <= MaxPairs /\
               \A k \in 1..(Len(jx) - 1) : jx[k] < jx[k + 1]}}

MalformedPairLists ==
  {[ps EXCEPT ![pos] = DropField(ps[pos], f)] :
     <<ps, pos, f>> \in
       {x \in ValidPairLists \X (1..MaxPairs) \X PairFields : x[2] <= Len(x[1])}}

\* the input documents: with the list, or without the "prompt_pairs" key
Documents ==
  {[prompt_pairs |-> ps] : ps \in ValidPairLists \cup MalformedPairLists}
    \cup {[pairs |-> <<>>]}

IsValidSource(doc) ==
  /\ "prompt_pairs" \in DOMAIN doc
  /\ \A k \in 1..Len(doc.prompt_pairs) : DOMAIN doc.prompt_pairs[k] = PairFields

\* what client.messages.create can do: raise, or return a message
Pending == [kind |-> "pending", content |-> <<>>, desc |-> <<>>]

Outcomes ==
  {[kind |-> "message", content |-> <<[text |-> <<"O", "K">>]>>, desc |-> <<>>],
   [kind |-> "message", content |-> <<>>, desc |-> <<>>],
   [kind |-> "error", content |-> <<>>, desc |-> <<"5", "2", "9">>]}

\* ------------------------------------------------------------------- state
VARIABLES
  source,        \* the input document at prompt_pairs_file
  pc,            \* position of run_evaluation
  prompt_pairs,  \* the loaded list
  results,       \* the accumulating result list
  timestamp,     \* the run timestamp
  i,             \* enumerate index of the loop, 1-based
  clock,         \* wall clock, in ticks
  calls,         \* log of client.messages.create invocations
  json_files,    \* JSON files written, in order
  csv_files,     \* CSV files written, in order
  returned       \* value returned by run_evaluation

vars ==
  <<source, pc, prompt_pairs, results, timestamp, i, clock, calls,
    json_files, csv_files, returned>>

NotReturned == <<"none">>

\* --------------------------------------------------------------- JSON codec
\* json.dump, ensure_ascii: the escape of one character inside a string
JsonEscape(c) ==
  CASE c = "\"" -> <<"\\", "\"">>
    [] c = "\\" -> <<"\\", "\\">>
    [] c = "\n" -> <<"\\", "n">>
    [] c = "\r" -> <<"\\", "r">>
    [] c = "\t" -> <<"\\", "t">>
    [] OTHER    -> <<c>>

RECURSIVE JsonEscapeAll(_)
JsonEscapeAll(s) ==
  IF s = <<>> THEN <<>> ELSE JsonEscape(Head(s)) \o JsonEscapeAll(Tail(s))

\* a Python str as a JSON string literal
JsonString(s) == <<"\"">> \o JsonEscapeAll(s) \o <<"\"">>

\* mutant: total_prompts counts pairs instead of prompts
JsonDocumentCountsPairs(res, ts) ==
  [metadata |-> [timestamp     |-> JsonString(ts),
                 model         |-> JsonString(model),
                 total_prompts |-> DecStr(Len(res) \div 2)],
   results  |-> [k \in 1..Len(res) |->
                   [f \in DOMAIN res[k] |-> JsonString(res[k][f])]]]

\* the document _save_results_json dumps; every leaf is the text json.dump emits
JsonDocument(res, ts) ==
  [metadata |-> [timestamp     |-> JsonString(ts),
                 model         |-> JsonString(model),
                 total_prompts |-> DecStr(Len(res))],
   results  |-> [k \in 1..Len(res) |->
                   [f \in DOMAIN res[k] |-> JsonString(res[k][f])]]]

\* json.load of the escapes above
JsonUnescape(c) ==
  CASE c = "n" -> "\n"
    [] c = "r" -> "\r"
    [] c = "t" -> "\t"
    [] OTHER   -> c

RECURSIVE JsonUnescapeAll(_)
JsonUnescapeAll(s) ==
  IF s = <<>> THEN <<>>
  ELSE IF Head(s) = "\\" /\ Len(s) >= 2
       THEN <<JsonUnescape(s[2])>> \o JsonUnescapeAll(SubSeq(s, 3, Len(s)))
       ELSE <<Head(s)>> \o JsonUnescapeAll(Tail(s))

\* json.load of a string literal
JsonLoadString(lit) == JsonUnescapeAll(SubSeq(lit, 2, Len(lit) - 1))

\* json.load of the results array of a dumped document
JsonLoadResults(doc) ==
  [k \in 1..Len(doc.results) |->
     [f \in DOMAIN doc.results[k] |-> JsonLoadString(doc.results[k][f])]]

\* ---------------------------------------------------------------- CSV codec
\* csv "excel" dialect: delimiter ',', quotechar '"', doublequote,
\* lineterminator '\r\n', QUOTE_MINIMAL
CsvSpecial == {",", "\"", "\r", "\n"}

CsvNeedsQuote(s) == \E k \in 1..Len(s) : s[k] \in CsvSpecial

\* mutant: the quote character is not doubled inside a quoted field
CsvKeepQuotes(s) == s

RECURSIVE CsvDoubleQuotes(_)
CsvDoubleQuotes(s) ==
  IF s = <<>> THEN <<>>
  ELSE (IF Head(s) = "\"" THEN <<"\"", "\"">> ELSE <<Head(s)>>)
         \o CsvDoubleQuotes(Tail(s))

\* one field as the writer emits it
CsvField(s) ==
  IF CsvNeedsQuote(s) THEN <<"\"">> \o CsvDoubleQuotes(s) \o <<"\"">> ELSE s

RECURSIVE CsvJoin(_)
CsvJoin(fields) ==
  IF Len(fields) = 0 THEN <<>>
  ELSE IF Len(fields) = 1 THEN CsvField(fields[1])
  ELSE CsvField(fields[1]) \o <<",">> \o CsvJoin(Tail(fields))

\* writer.writerow
CsvRow(fields) == CsvJoin(fields) \o <<"\r", "\n">>

\* DictWriter.writeheader
CsvHeader == CsvRow([c \in 1..Len(fieldnames) |-> FieldnameText[fieldnames[c]]])

\* DictWriter: the values of one result dict in fieldnames order
CsvDictRow(rec) == CsvRow([c \in 1..Len(fieldnames) |-> rec[fieldnames[c]]])

RECURSIVE CsvRows(_)
\* DictWriter.writerows
CsvRows(res) ==
  IF res = <<>> THEN <<>> ELSE CsvDictRow(Head(res)) \o CsvRows(Tail(res))

\* mutant: the header row is written only when there is a record
CsvTextNoHeaderIfEmpty(res) ==
  IF res = <<>> THEN <<>> ELSE CsvHeader \o CsvRows(res)

\* the text _save_results_csv writes
CsvText(res) == CsvHeader \o CsvRows(res)

\* the state a record's end leaves the reader in
CsvAfterNewline(c) == IF c = "\r" THEN "eat_crnl" ELSE "start_record"

\* csv.reader, one character: ps is the parser with its state st, the field
\* fld being read, the fields row of the current record and the records rows
CsvStep(ps, c) ==
  LET nl == c \in {"\r", "\n"}
      st == IF ps.st \in {"eat_crnl", "start_record"}
            THEN (IF nl THEN "start_record" ELSE "start_field")
            ELSE ps.st
      endRecord(r) ==
        [st |-> CsvAfterNewline(c), fld |-> <<>>, row |-> <<>>,
         rows |-> Append(ps.rows, r)]
      endField(f) ==
        [st |-> "start_field", fld |-> <<>>, row |-> Append(ps.row, f),
         rows |-> ps.rows]
      goOn(s, f) == [st |-> s, fld |-> f, row |-> ps.row, rows |-> ps.rows]
  IN
  IF ps.st = "eat_crnl" /\ c = "\n" THEN goOn("start_record", <<>>)
  ELSE
    CASE st = "start_record" -> endRecord(<<>>)
      [] st = "start_field" ->
           IF nl THEN endRecord(Append(ps.row, <<>>))
           ELSE IF c = "\"" THEN goOn("in_quoted", <<>>)
           ELSE IF c = "," THEN endField(<<>>)
           ELSE goOn("in_field", <<c>>)
      [] st = "in_field" ->
           IF nl THEN endRecord(Append(ps.row, ps.fld))
           ELSE IF c = "," THEN endField(ps.fld)
           ELSE goOn("in_field", Append(ps.fld, c))
      [] st = "in_quoted" ->
           IF c = "\"" THEN goOn("quote_in_quoted", ps.fld)
           ELSE goOn("in_quoted", Append(ps.fld, c))
      [] st = "quote_in_quoted" ->
           IF c = "\"" THEN goOn("in_quoted", Append(ps.fld, c))
           ELSE IF c = "," THEN endField(ps.fld)
           ELSE IF nl THEN endRecord(Append(ps.row, ps.fld))
           ELSE goOn("in_field", Append(ps.fld, c))

CsvStates ==
  {"start_record", "start_field", "in_field", "in_quoted", "quote_in_quoted",
   "eat_crnl"}

RECURSIVE CsvRead(_, _, _, _)
\* the reader run over text[lo..hi], by halves: the left half is read first,
\* then the right half from the parser the left half leaves
CsvRead(text, ps, lo, hi) ==
  IF lo > hi THEN ps
  ELSE IF lo = hi THEN CsvStep(ps, text[lo])
  ELSE LET mid == (lo + hi) \div 2
           left == CsvRead(text, ps, lo, mid)
       IN CASE left.st \in CsvStates -> CsvRead(text, left, mid + 1, hi)

\* csv.reader: the list of rows of a text; a record the text ends in is kept
CsvParse(text) ==
  LET ps == CsvRead(text,
                    [st |-> "start_record", fld |-> <<>>, row |-> <<>>, rows |-> <<>>],
                    1, Len(text))
  IN IF ps.st \in {"start_field", "in_field", "in_quoted", "quote_in_quoted"}
     THEN Append(ps.rows, Append(ps.row, ps.fld))
     ELSE ps.rows

\* csv.DictReader: the data rows keyed by the header row
CsvLoadResults(text) ==
  LET rows == CsvParse(text)
      hdr  == rows[1]
      col(name) == CHOOSE c \in 1..Len(hdr) : hdr[c] = FieldnameText[name]
  IN [k \in 1..(Len(rows) - 1) |->
        [f \in {fieldnames[c] : c \in 1..Len(fieldnames)} |-> rows[k + 1][col(f)]]]

\* ------------------------------------------------------------- send_prompt
\* mutant: the exception text is returned without the marker
SendPromptResultBareMessage(o) ==
  IF o.kind = "error" THEN o.desc
  ELSE IF Len(o.content) = 0 THEN IndexErrorText
  ELSE o.content[1].text

\* the value send_prompt returns for what the client did
SendPromptResult(o) ==
  IF o.kind = "error" THEN ErrorPrefix \o o.desc
  ELSE IF Len(o.content) = 0 THEN ErrorPrefix \o IndexErrorText
  ELSE o.content[1].text

\* the call failed: the client raised, or the message could not be read
Failed(o) == o.kind = "error" \/ (o.kind = "message" /\ Len(o.content) = 0)

\* the request client.messages.create receives
Request(prompt) ==
  [model |-> model, max_tokens |-> max_tokens, prompt |-> prompt,
   at |-> clock, done_at |-> clock, outcome |-> Pending]

\* the log once the outstanding call has ended with outcome o at time t
Completed(log, o, t) ==
  [log EXCEPT ![Len(log)].outcome = o, ![Len(log)].done_at = t]

\* ---------------------------------------------------------- run_evaluation
\* mutant: every record is stamped with the run timestamp
ResultRecordRunTime(pair, framing, key, response, now) ==
  [prompt_id     |-> pair.id,
   category      |-> pair.category,
   base_question |-> pair.base_question,
   framing_type  |-> framing,
   full_prompt   |-> pair[key],
   response      |-> response,
   timestamp     |-> timestamp,
   model         |-> model]

\* the dict appended for one framing of a pair
ResultRecord(pair, framing, key, response, now) ==
  [prompt_id     |-> pair.id,
   category      |-> pair.category,
   base_question |-> pair.base_question,
   framing_type  |-> framing,
   full_prompt   |-> pair[key],
   response      |-> response,
   timestamp     |-> IsoFormat(now),
   model         |-> model]

NeutralRecord(pair, response, now) ==
  ResultRecord(pair, Neutral, "neutral_framing", response, now)

\* mutant: the invested record is labelled neutral
InvestedRecordAsNeutral(pair, response, now) ==
  ResultRecord(pair, Neutral, "invested_framing", response, now)

\* mutant: the invested record stores the neutral prompt
InvestedRecordNeutralPrompt(pair, response, now) ==
  ResultRecord(pair, Invested, "neutral_framing", response, now)

InvestedRecord(pair, response, now) ==
  ResultRecord(pair, Invested, "invested_framing", response, now)

\* mutant: a failed call leaves no record
AppendUnlessError(res, rec) ==
  IF StartsWith(rec.response, ErrorPrefix) THEN res ELSE Append(res, rec)

\* results.append
AppendResult(res, rec) == Append(res, rec)

\* how far the clock may move while a call is outstanding
ClockSteps == IF clock < MaxClock THEN {0, 1} ELSE {0}

Crash ==
  /\ pc' = "crashed"
  /\ UNCHANGED <<source, prompt_pairs, results, timestamp, i, clock, calls,
                 json_files, csv_files, returned>>

Init ==
  /\ source \in Documents
  /\ pc = "idle"
  /\ prompt_pairs = <<>>
  /\ results = <<>>
  /\ timestamp = <<>>
  /\ i = 0
  /\ clock = 0
  /\ calls = <<>>
  /\ json_files = <<>>
  /\ csv_files = <<>>
  /\ returned = NotReturned

\* load_prompt_pairs, results = [], the run timestamp
StartRun ==
  /\ pc = "idle"
  /\ IF "prompt_pairs" \in DOMAIN source
     THEN /\ prompt_pairs' = source.prompt_pairs
          /\ results' = <<>>
          /\ timestamp' = Strftime(clock)
          /\ i' = 1
          /\ pc' = "loop"
          /\ UNCHANGED <<source, clock, calls, json_files, csv_files, returned>>
     ELSE Crash

\* mutant: the loop stops one pair early
LoopExhaustedOneEarly == i >= Len(prompt_pairs)

\* the for loop has no pair left
LoopExhausted == i > Len(prompt_pairs)

\* top of the loop body up to the client call inside send_prompt(neutral)
SendNeutral ==
  /\ pc = "loop"
  /\ ~LoopExhausted
  /\ LET pair == prompt_pairs[i] IN
     IF {"id", "category", "base_question", "neutral_framing"} \subseteq DOMAIN pair
     THEN /\ calls' = Append(calls, Request(pair.neutral_framing))
          /\ pc' = "wait_neutral"
          /\ UNCHANGED <<source, prompt_pairs, results, timestamp, i, clock,
                         json_files, csv_files, returned>>
     ELSE Crash

\* the client call ends, send_prompt returns, the neutral dict is appended
NeutralReturns ==
  /\ pc = "wait_neutral"
  /\ \E o \in Outcomes, d \in ClockSteps :
       /\ clock' = clock + d
       /\ calls' = Completed(calls, o, clock + d)
       /\ results' = AppendResult(results,
                       NeutralRecord(prompt_pairs[i], SendPromptResult(o), clock + d))
  /\ pc' = "invested"
  /\ UNCHANGED <<source, prompt_pairs, timestamp, i, json_files, csv_files, returned>>

\* the client call inside send_prompt(invested)
SendInvested ==
  /\ pc = "invested"
  /\ LET pair == prompt_pairs[i] IN
     IF "invested_framing" \in DOMAIN pair
     THEN /\ calls' = Append(calls, Request(pair.invested_framing))
          /\ pc' = "wait_invested"
          /\ UNCHANGED <<source, prompt_pairs, results, timestamp, i, clock,
                         json_files, csv_files, returned>>
     ELSE Crash

\* the client call ends, send_prompt returns, the invested dict is appended
InvestedReturns ==
  /\ pc = "wait_invested"
  /\ \E o \in Outcomes, d \in ClockSteps :
       /\ clock' = clock + d
       /\ calls' = Completed(calls, o, clock + d)
       /\ results' = AppendResult(results,
                       InvestedRecord(prompt_pairs[i], SendPromptResult(o), clock + d))
  /\ i' = i + 1
  /\ pc' = "loop"
  /\ UNCHANGED <<source, prompt_pairs, timestamp, json_files, csv_files, returned>>

\* the loop is exhausted: _save_results_json(results, timestamp)
SaveResultsJson ==
  /\ pc = "loop"
  /\ LoopExhausted
  /\ json_files' = Append(json_files,
                     [name |-> timestamp, doc |-> JsonDocument(results, timestamp)])
  /\ pc' = "save_csv"
  /\ UNCHANGED <<source, prompt_pairs, results, timestamp, i, clock, calls,
                 csv_files, returned>>

\* _save_results_csv(results, timestamp)
SaveResultsCsv ==
  /\ pc = "save_csv"
  /\ csv_files' = Append(csv_files, [name |-> timestamp, text |-> CsvText(results)])
  /\ pc' = "return"
  /\ UNCHANGED <<source, prompt_pairs, results, timestamp, i, clock, calls,
                 json_files, returned>>

\* return results
Return ==
  /\ pc = "return"
  /\ returned' = results
  /\ pc' = "done"
  /\ UNCHANGED <<source, prompt_pairs, results, timestamp, i, clock, calls,
                 json_files, csv_files>>

\* the process is stopped from outside while pairs are being processed
Interrupt ==
  /\ pc \in {"loop", "wait_neutral", "invested", "wait_invested"}
  /\ pc = "loop" => ~LoopExhausted
  /\ pc' = "interrupted"
  /\ UNCHANGED <<source, prompt_pairs, results, timestamp, i, clock, calls,
                 json_files, csv_files, returned>>

Next ==
  \/ StartRun
  \/ SendNeutral
  \/ NeutralReturns
  \/ SendInvested
  \/ InvestedReturns
  \/ SaveResultsJson
  \/ SaveResultsCsv
  \/ Return
  \/ Interrupt

Spec == Init /\ [][Next]_vars

\* ================================================================== claims
ErrorMark == <<"E", "R", "R", "O", "R", ":">>

NumPairs == IF "prompt_pairs" \in DOMAIN source THEN Len(source.prompt_pairs) ELSE 0

\* the pair of the input document that result k belongs to
PairOf(k) == source.prompt_pairs[(k + 1) \div 2]

\* the framing result k belongs to
FramingOf(k) == IF k % 2 = 1 THEN Neutral ELSE Invested

\* the prompt of the k-th framing of a valid input document, in source order
ExpectedPrompt(k) ==
  IF k % 2 = 1 THEN PairOf(k).neutral_framing ELSE PairOf(k).invested_framing

InFlight == calls # <<>> /\ calls[Len(calls)].outcome = Pending

SomeCallFailed == \E k \in 1..Len(calls) : Failed(calls[k].outcome)

\* C1: on a valid source of N pairs the records accumulated so far are, in
\* order, the neutral then the invested record of pair 1, of pair 2, ...; and
\* the returned list has exactly 2N of them, whatever the service did.
C1_TwoRecordsPerPairInOrder ==
  IsValidSource(source) =>
    /\ \A k \in 1..Len(results) :
         /\ k <= 2 * NumPairs
         /\ results[k].prompt_id = PairOf(k).id
         /\ results[k].framing_type = FramingOf(k)
    /\ pc = "done" =>
         /\ Len(returned) = 2 * NumPairs
         /\ \A k \in 1..NumPairs :
              /\ returned[2 * k - 1].prompt_id = source.prompt_pairs[k].id
              /\ returned[2 * k - 1].framing_type = Neutral
              /\ returned[2 * k].prompt_id = source.prompt_pairs[k].id
              /\ returned[2 * k].framing_type = Invested

C1_Witness ==
  /\ pc = "done"
  /\ Len(returned) = 4
  /\ SomeCallFailed
  /\ returned[3].prompt_id # returned[1].prompt_id

\* C2: a failed call leaves a record whose response starts with "ERROR:";
\* a valid source never stops the run, which still submits every framing of
\* every pair; records once collected stay as they are, in the returned list
\* and, read back, in both files.
C2_FailureRecorded ==
  \A k \in 1..Len(calls) :
    (calls[k].outcome # Pending /\ Failed(calls[k].outcome)) =>
      /\ k <= Len(results)
      /\ StartsWith(results[k].response, ErrorMark)

C2_RunContinues ==
  IsValidSource(source) =>
    /\ pc # "crashed"
    /\ pc \in {"return", "done"} =>
         /\ Len(calls) = 2 * NumPairs
         /\ \A k \in 1..Len(calls) : calls[k].prompt = ExpectedPrompt(k)
         /\ returned \in {NotReturned, results}
         /\ JsonLoadResults(json_files[1].doc) = results
         /\ CsvLoadResults(csv_files[1].text) = results

C2_FailureDoesNotLoseData ==
  /\ [](C2_FailureRecorded /\ C2_RunContinues)
  /\ [][IsPrefix(results, results')]_vars

C2_Witness ==
  /\ pc = "done"
  /\ Len(calls) = 4
  /\ Failed(calls[1].outcome)
  /\ ~Failed(calls[2].outcome)
  /\ Failed(calls[3].outcome)
  /\ calls[3].outcome.kind = "error"

\* C3 (as claimed): on a source in which some pair lacks a required field the
\* service is never invoked.
C3_NoCallOnMalformedSource ==
  ~IsValidSource(source) => Len(calls) = 0

\* C4: a file is written only once every pair has been processed, never
\* twice, and the list is returned only after both files exist; a run that
\* stopped while pairs were being processed has written nothing.
C4_SinglePersistencePass ==
  /\ Len(json_files) <= 1
  /\ Len(csv_files) <= 1
  /\ (json_files # <<>> \/ csv_files # <<>>) =>
       /\ pc \in {"save_csv", "return", "done"}
       /\ i > Len(prompt_pairs)
       /\ Len(results) = 2 * NumPairs
  /\ csv_files # <<>> => json_files # <<>>
  /\ (pc = "done" \/ returned # NotReturned) =>
       /\ Len(json_files) = 1
       /\ Len(csv_files) = 1
  /\ pc \in {"interrupted", "crashed"} => json_files = <<>> /\ csv_files = <<>>

C4_Witness ==
  /\ pc = "done"
  /\ Len(results) = 4
  /\ Len(json_files) = 1
  /\ Len(csv_files) = 1

\* C5: read back, the CSV file has the header row and then one row per
\* record of the JSON file's results array, in the same order, every column
\* equal to the field of that record.
C5_CsvRowsEqualJsonRecords ==
  (json_files # <<>> /\ csv_files # <<>>) =>
    LET j == JsonLoadResults(json_files[1].doc)
        rows == CsvParse(csv_files[1].text)
        c == CsvLoadResults(csv_files[1].text)
    IN /\ rows[1] = [n \in 1..Len(fieldnames) |-> FieldnameText[fieldnames[n]]]
       /\ Len(rows) = Len(j) + 1
       /\ \A k \in 1..Len(j) :
            /\ Len(rows[k + 1]) = Len(fieldnames)
            /\ \A n \in 1..Len(fieldnames) :
                 rows[k + 1][n] = j[k][fieldnames[n]]
       /\ c = j

C5_Witness ==
  /\ pc = "done"
  /\ Len(results) = 4
  /\ results[3].base_question = <<"\r", "\n">>
  /\ results[2].full_prompt = <<"i", "\n", "!">>
  /\ results[4].full_prompt = <<"\"", "\"", ",">>
  /\ SomeCallFailed

\* C6: every call that has ended left exactly one record; with no call
\* outstanding there are as many records as invocations; a run that returns
\* has submitted each framing of each pair once, in order.
C6_OneRecordPerCall ==
  /\ Cardinality({k \in 1..Len(calls) : calls[k].outcome # Pending}) = Len(results)
  /\ ~InFlight => Len(results) = Len(calls)
  /\ InFlight => Len(results) = Len(calls) - 1
  /\ pc = "done" =>
       /\ Len(calls) = 2 * NumPairs
       /\ \A k \in 1..Len(calls) :
            /\ calls[k].prompt = ExpectedPrompt(k)
            /\ results[k].full_prompt = calls[k].prompt

C6_Witness ==
  /\ pc = "done"
  /\ Len(calls) = 4
  /\ \A k \in 1..4 : Failed(calls[k].outcome)

\* C7 (as claimed): the timestamp of a record is the clock at the instant the
\* call for that record was invoked.
C7_TimestampAtInvocation ==
  \A k \in 1..Len(results) : results[k].timestamp = IsoFormat(calls[k].at)

\* C7 (amended): the timestamp of a record is the clock when the record is
\* built, after the call for that record has returned; each record has the
\* time of its own call, not the time the run started.
C7_TimestampAfterReturn ==
  \A k \in 1..Len(results) :
    /\ results[k].timestamp = IsoFormat(calls[k].done_at)
    /\ calls[k].done_at >= calls[k].at
    /\ k > 1 => calls[k].at >= calls[k - 1].done_at

C7_Witness ==
  /\ Len(results) >= 2
  /\ calls[1].at = 0
  /\ calls[1].done_at = 1
  /\ calls[2].done_at = 2
  /\ results[2].timestamp # results[1].timestamp
  /\ results[1].timestamp # IsoFormat(calls[1].at)

\* C8: a source with no pair makes no call and no record, does not fail, and
\* a run that returns has returned the empty list and written a JSON file
\* with an empty results array and a CSV file that is the header row alone.
C8_EmptySource ==
  ("prompt_pairs" \in DOMAIN source /\ source.prompt_pairs = <<>>) =>
    /\ calls = <<>>
    /\ results = <<>>
    /\ pc \notin {"crashed", "wait_neutral", "invested", "wait_invested"}
    /\ pc = "done" =>
         /\ returned = <<>>
         /\ Len(json_files) = 1
         /\ json_files[1].doc.results = <<>>
         /\ json_files[1].doc.metadata.total_prompts = <<"0">>
         /\ Len(csv_files) = 1
         /\ CsvParse(csv_files[1].text) =
              <<[n \in 1..Len(fieldnames) |-> FieldnameText[fieldnames[n]]]>>

C8_Witness ==
  /\ pc = "done"
  /\ source.prompt_pairs = <<>>
  /\ csv_files # <<>>

\* C9: every record carries the prompt that was submitted for it, which is
\* the framing of its pair named by framing_type, the id, category and
\* base_question of that pair, and, when the call succeeded, the text the
\* service returned.
C9_RecordFields ==
  \A k \in 1..Len(results) :
    LET r == results[k]
        p == PairOf(k)
        o == calls[k].outcome
    IN /\ r.full_prompt = calls[k].prompt
       /\ r.framing_type \in {Neutral, Invested}
       /\ r.framing_type = Neutral => r.full_prompt = p.neutral_framing
       /\ r.framing_type = Invested => r.full_prompt = p.invested_framing
       /\ r.prompt_id = p.id
       /\ r.category = p.category
       /\ r.base_question = p.base_question
       /\ (o.kind = "message" /\ Len(o.content) > 0) => r.response = o.content[1].text

C9_Witness ==
  /\ Len(results) = 4
  /\ results[4].framing_type = Invested
  /\ results[4].response = <<"O", "K">>
  /\ results[3].response = <<"O", "K">>
  /\ results[3].category = <<"a", "\\", "b">>

\* C10: in the JSON file, total_prompts is the length of the results array,
\* twice the number of pairs, and metadata.timestamp is the run timestamp,
\* taken when the run started, which also names both files.
C10_Metadata ==
  /\ pc # "idle" /\ "prompt_pairs" \in DOMAIN source => timestamp = Strftime(0)
  /\ json_files # <<>> =>
       LET f == json_files[1] IN
       /\ f.doc.metadata.total_prompts = DecStr(Len(f.doc.results))
       /\ Len(f.doc.results) = 2 * NumPairs
       /\ JsonLoadString(f.doc.metadata.timestamp) = timestamp
       /\ f.name = timestamp
  /\ csv_files # <<>> => csv_files[1].name = timestamp

C10_Witness ==
  /\ pc = "done"
  /\ Len(results) = 4
  /\ clock = MaxClock
  /\ Strftime(clock) # timestamp
  /\ json_files[1].doc.metadata.total_prompts = <<"4">>

====
